---- MODULE Spec2Model ----
(***************************************************************************)
(* Model of the Cloudflare Worker in src/functions/api/[[catchall]].js:    *)
(* the router onRequest, the details flow handleDetailsRequest and the     *)
(* full-result flow handleFullResultRequest, together with the two         *)
(* downstream services they call (the payment store and the board results  *)
(* API).                                                                   *)
(*                                                                         *)
(* JavaScript values are records [t, v]: t is the type tag and v the       *)
(* payload.  A string is a sequence of text fragments; strings that the    *)
(* code inspects (roll, no, registration, identifier, referralKey, the     *)
(* fields of a payment record) are spelled one character per fragment so   *)
(* that toLowerCase, trim and the regular expressions are computed on the  *)
(* characters.  A JSON object is a set of <<key, value>> pairs.            *)
(***************************************************************************)
EXTENDS Integers, Sequences, FiniteSets, TLC

VARIABLES
    inbox,                 \* inbox[r]: the inbound request r carries, or NoRequest
    pc,                    \* pc[r]: where the handling of r stands
    paymentButtonIdToUse,  \* the details flow's local, kept across its fetch
    apiResponse,           \* the board API's answer to r's fetch, once settled
    calls,                 \* calls[r]: the downstream calls r has issued, in order
    resp,                  \* resp[r]: the responses returned for r, in order
    paymentDb              \* what the payment store answers to a GET right now

vars == <<inbox, pc, paymentButtonIdToUse, apiResponse, calls, resp, paymentDb>>

(***************************** bounds **************************************)

\* Longest list of records the payment store holds in the model.
MaxStoreLen == 2

(************************* JavaScript values *******************************)

Undefined == [t |-> "undefined", v |-> <<>>]

Null == [t |-> "null", v |-> <<>>]

Str(s) == [t |-> "string", v |-> s]

Num(s) == [t |-> "number", v |-> s]

Obj(pairs) == [t |-> "object", v |-> pairs]

\* A string literal of the source, kept as one fragment.
Lit(text) == [t |-> "string", v |-> <<text>>]

\* The function Object and the object Object.prototype, which every plain
\* object inherits as its properties constructor and __proto__.
ObjectFunction == [t |-> "function", v |-> <<"Object">>]

ObjectPrototype == [t |-> "prototype", v |-> <<"Object.prototype">>]

Digits == <<"0", "1", "2", "3", "4", "5", "6", "7", "8", "9">>

Upper == <<"A", "B", "C", "D", "E", "F", "G", "H", "I", "J", "K", "L", "M",
           "N", "O", "P", "Q", "R", "S", "T", "U", "V", "W", "X", "Y", "Z">>

Lower == <<"a", "b", "c", "d", "e", "f", "g", "h", "i", "j", "k", "l", "m",
           "n", "o", "p", "q", "r", "s", "t", "u", "v", "w", "x", "y", "z">>

WhiteSpace == {" ", "\t", "\n"}

IsDigit(c) == \E i \in 1..10 : Digits[i] = c

DigitVal(c) == (CHOOSE i \in 1..10 : Digits[i] = c) - 1

RECURSIVE ToInt(_)
ToInt(ds) ==
    IF ds = <<>> THEN 0
    ELSE 10 * ToInt(SubSeq(ds, 1, Len(ds) - 1)) + DigitVal(ds[Len(ds)])

RECURSIVE ToDigits(_)
ToDigits(n) ==
    IF n < 10 THEN <<Digits[n + 1]>>
    ELSE Append(ToDigits(n \div 10), Digits[(n % 10) + 1])

\* !x
Falsy(x) ==
    \/ x.t \in {"undefined", "null"}
    \/ x.t = "string" /\ x.v = <<>>
    \/ x.t = "number" /\ ToInt(x.v) = 0

Truthy(x) == ~Falsy(x)

\* String(x), the coercion RegExp.prototype.test and template literals apply.
ToStringJS(x) ==
    CASE x.t = "string" -> x.v
      [] x.t = "number" -> x.v
      [] x.t = "undefined" -> <<"u", "n", "d", "e", "f", "i", "n", "e", "d">>
      [] x.t = "null" -> <<"n", "u", "l", "l">>
      [] OTHER -> <<"[object Object]">>

\* a === b
StrictEq(a, b) == a.t = b.t /\ a.v = b.v

\* a + b: numbers add, anything else concatenates the string forms.
Plus(a, b) ==
    IF a.t = "number" /\ b.t = "number"
    THEN Num(ToDigits(ToInt(a.v) + ToInt(b.v)))
    ELSE Str(ToStringJS(a) \o ToStringJS(b))

ToLowerChar(c) ==
    IF \E i \in 1..26 : Upper[i] = c
    THEN Lower[CHOOSE i \in 1..26 : Upper[i] = c]
    ELSE c

\* String.prototype.toLowerCase
ToLowerCase(s) == [i \in 1..Len(s) |-> ToLowerChar(s[i])]

RECURSIVE TrimStart(_)
TrimStart(s) ==
    IF s # <<>> /\ s[1] \in WhiteSpace THEN TrimStart(Tail(s)) ELSE s

RECURSIVE TrimEnd(_)
TrimEnd(s) ==
    IF s # <<>> /\ s[Len(s)] \in WhiteSpace
    THEN TrimEnd(SubSeq(s, 1, Len(s) - 1))
    ELSE s

\* String.prototype.trim
Trim(s) == TrimEnd(TrimStart(s))

\* /^\d{n}$/.test(x)
TestDigits(n, x) ==
    LET s == ToStringJS(x)
    IN  Len(s) = n /\ \A i \in 1..Len(s) : IsDigit(s[i])

\* obj[key] on a JSON object (own properties only).
Get(pairs, key) ==
    IF \E p \in pairs : p[1] = key
    THEN (CHOOSE p \in pairs : p[1] = key)[2]
    ELSE Undefined

\* JSON.stringify of an object followed by the client's parse: properties whose
\* value is undefined or a function are omitted, nested prototypes print as {}.
Stringify(pairs) ==
    {<<p[1], IF p[2].t = "prototype" THEN Obj({}) ELSE p[2]>> :
        p \in {q \in pairs : q[2].t \notin {"undefined", "function"}}}

(***************************** configuration *******************************)

PAYMENT_DB_URL == "https://warisha.pw/payments"

BOARD_API_BASE_URL == "https://boardresultapi.abplive.com/wb/2025/12"

\* referralButtonMap[key]: the three own properties, then the prototype chain.
referralButtonMap(key) ==
    CASE key = <<"s", "u", "b", "h", "r", "a">> -> Lit("pl_QRCx74QvShiAil")
      [] key = <<"k", "o", "y", "e", "l">> -> Lit("pl_QMWdxwIPVZYTpi")
      [] key = <<"a", "n", "w", "e", "s", "h", "a">> -> Lit("pl_QRfw57xno82GiV")
      [] key = <<"c", "o", "n", "s", "t", "r", "u", "c", "t", "o", "r">> ->
            ObjectFunction
      [] key = <<"_", "_", "p", "r", "o", "t", "o", "_", "_">> -> ObjectPrototype
      [] OTHER -> Undefined

defaultRazorpayButtonId == Lit("pl_QMXOuva67vyoan")

corsHeaders ==
    { <<"Access-Control-Allow-Origin", "*">>,
      <<"Access-Control-Allow-Methods", "POST, OPTIONS">>,
      <<"Access-Control-Allow-Headers", "Content-Type">> }

\* JsonHeaders without the spread of corsHeaders.
JsonHeadersNoSpread == {<<"Content-Type", "application/json">>}

\* { ...corsHeaders, 'Content-Type': 'application/json' }
JsonHeaders == corsHeaders \cup {<<"Content-Type", "application/json">>}

(******************************* responses *********************************)

NoBody == [t |-> "nobody", v |-> <<>>]

\* new Response(body, { status, headers })
Response(status, headers, body) ==
    [status |-> status, headers |-> headers, body |-> body]

\* new Response(JSON.stringify({ message }), { status, headers: JSON headers })
MessageResponse(status, message) ==
    Response(status, JsonHeaders, Obj(Stringify({<<"message", message>>})))

\* Outcomes of a synchronous stretch of a handler.
Respond(response) == [kind |-> "respond", response |-> response]

Throw(message) == [kind |-> "throw", message |-> message]

Fetch(call, button) == [kind |-> "fetch", call |-> call, button |-> button]

\* The catch block of onRequest: every thrown value of the model is an Error.
TopLevelCatch(message) == MessageResponse(500, Lit(message))

(**************************** downstream calls *****************************)

\* fetch(PAYMENT_DB_URL, { headers: cache-busting })
PaymentCall == [target |-> "payments", url |-> <<PAYMENT_DB_URL>>]

\* fetch(`${BOARD_API_BASE_URL}/${roll + no}/${registration.trim()}`)
BoardCall(roll, no, registration) ==
    [target |-> "board",
     url |-> <<BOARD_API_BASE_URL, "/">> \o ToStringJS(Plus(roll, no)) \o <<"/">>
             \o Trim(registration.v)]

NotJson == [t |-> "notjson", v |-> <<>>]

StatusText(status) ==
    CASE status = 200 -> "OK"
      [] status = 404 -> "Not Found"
      [] status = 403 -> "Forbidden"
      [] OTHER -> "Internal Server Error"

\* response.ok
Ok(status) == status >= 200 /\ status <= 299

\* `API Error (${apiResponse.status}): ${apiResponse.statusText}`
ApiErrorText(status) ==
    Str(<<"API Error (">> \o ToDigits(status) \o <<"): ", StatusText(status)>>)

\* The try block around apiResponse.json() of both flows: errorJson.message
\* when the body parses to something with a truthy message, else the default.
ErrorTextOf(answer) ==
    IF answer.body.t = "object" /\ Truthy(Get(answer.body.v, "message"))
    THEN Get(answer.body.v, "message")
    ELSE ApiErrorText(answer.status)

(***************************** details flow ********************************)

\* `const { ... } = requestData`: the properties of an object, nothing for
\* another primitive (null is handled by the callers: it throws).
Fields(body) == IF body.t = "object" THEN body.v ELSE {}

\* DetailsInvalid without the pattern test of the serial number.
DetailsInvalidNoSerial(roll, no, registration) ==
    \/ Falsy(roll)
    \/ Falsy(no)
    \/ Falsy(registration)
    \/ ~TestDigits(6, roll)
    \/ registration.t # "string"
    \/ Trim(registration.v) = <<>>

\* The validation condition of handleDetailsRequest.
DetailsInvalid(roll, no, registration) ==
    \/ Falsy(roll)
    \/ Falsy(no)
    \/ Falsy(registration)
    \/ ~TestDigits(6, roll)
    \/ ~TestDigits(4, no)
    \/ registration.t # "string"
    \/ Trim(registration.v) = <<>>

\* Referral resolution: the button id, or the TypeError of calling toLowerCase
\* on a value that has none.
ResolveReferral(referralKey) ==
    IF Falsy(referralKey) THEN [kind |-> "value", value |-> defaultRazorpayButtonId]
    ELSE IF referralKey.t # "string"
    THEN Throw("referralKey.toLowerCase is not a function")
    ELSE IF Truthy(referralButtonMap(ToLowerCase(referralKey.v)))
    THEN [kind |-> "value",
          value |-> referralButtonMap(ToLowerCase(referralKey.v))]
    ELSE [kind |-> "value", value |-> defaultRazorpayButtonId]

\* handleDetailsRequest from the resolution of request.json() to its fetch.
DetailsAfterJson(body) ==
    IF body.t = "notjson"
    THEN Respond(MessageResponse(400, Lit("Invalid JSON body")))
    ELSE IF body.t = "null"
    THEN Throw("Cannot destructure property 'roll' of 'requestData' as it is null.")
    ELSE
      LET roll == Get(Fields(body), "roll")
          no == Get(Fields(body), "no")
          registration == Get(Fields(body), "registration")
          referral == ResolveReferral(Get(Fields(body), "referralKey"))
      IN  IF DetailsInvalid(roll, no, registration)
          THEN Respond(MessageResponse(400,
                 Lit("Invalid Roll, No, or Registration Number format. All fields are required.")))
          ELSE IF referral.kind = "throw" THEN referral
          ELSE Fetch(BoardCall(roll, no, registration), referral.value)

\* handleDetailsRequest from the settling of fetch(apiUrl) to its response.
\* answer.net = "fail" is the rejected fetch.
DetailsAfterFetch(answer, button) ==
    IF answer.net = "fail"
    THEN MessageResponse(502, Lit("Failed to connect to the results service."))
    ELSE IF ~Ok(answer.status)
    THEN MessageResponse(answer.status, ErrorTextOf(answer))
    ELSE IF answer.body.t # "object"
    THEN MessageResponse(502, Lit("Failed to connect to the results service."))
    ELSE Response(200, JsonHeaders,
           Obj(Stringify({ <<"name", Get(answer.body.v, "name")>>,
                           <<"rollNo", Get(answer.body.v, "ROll_No")>>,
                           <<"regNo", Get(answer.body.v, "Reg_No")>>,
                           <<"paymentButtonId", button>> })))

(**************************** full-result flow *****************************)

\* The validation condition of handleFullResultRequest.
FullInvalid(identifier, roll, no, registration) ==
    \/ Falsy(identifier)
    \/ DetailsInvalid(roll, no, registration)

\* handleFullResultRequest from the resolution of request.json() to its fetch
\* of the payment store.
FullAfterJson(body) ==
    IF body.t = "notjson"
    THEN Respond(MessageResponse(400, Lit("Invalid JSON body")))
    ELSE IF body.t = "null"
    THEN Throw("Cannot destructure property 'identifier' of 'requestData' as it is null.")
    ELSE IF FullInvalid(Get(Fields(body), "identifier"), Get(Fields(body), "roll"),
                        Get(Fields(body), "no"), Get(Fields(body), "registration"))
    THEN Respond(MessageResponse(400,
           Lit("Invalid Identifier (Payment ID/Email/Phone), Roll, No, or Registration Number format. All fields are required.")))
    ELSE Fetch(PaymentCall, Undefined)

\* LowerMatches with the comparison lost: any truthy field matches.
LowerMatchesAny(x, normalizedIdentifier) ==
    IF Falsy(x) THEN "false" ELSE "true"

\* x && x.toLowerCase() === normalizedIdentifier, as "true", "false" or "throw".
LowerMatches(x, normalizedIdentifier) ==
    IF Falsy(x) THEN "false"
    ELSE IF x.t # "string" THEN "throw"
    ELSE IF ToLowerCase(x.v) = normalizedIdentifier THEN "true"
    ELSE "false"

\* The callback of paymentData.some, as "true", "false" or "throw".
RecordMatches(record, identifier, roll, no) ==
    IF record.t # "object" THEN "throw"
    ELSE IF ~StrictEq(Get(record.v, "roll"), roll) THEN "false"
    ELSE IF ~StrictEq(Get(record.v, "no"), no) THEN "false"
    ELSE IF LowerMatches(Get(record.v, "payment_id"), ToLowerCase(identifier.v)) # "false"
    THEN LowerMatches(Get(record.v, "payment_id"), ToLowerCase(identifier.v))
    ELSE IF LowerMatches(Get(record.v, "email"), ToLowerCase(identifier.v)) # "false"
    THEN LowerMatches(Get(record.v, "email"), ToLowerCase(identifier.v))
    ELSE IF Truthy(Get(record.v, "phone")) /\ StrictEq(Get(record.v, "phone"), identifier)
    THEN "true"
    ELSE "false"

\* paymentData.some(callback): left to right, stopping at the first true.
RECURSIVE SomeRecord(_, _, _, _)
SomeRecord(list, identifier, roll, no) ==
    IF list = <<>> THEN "false"
    ELSE IF RecordMatches(Head(list), identifier, roll, no) = "false"
    THEN SomeRecord(Tail(list), identifier, roll, no)
    ELSE RecordMatches(Head(list), identifier, roll, no)

\* isValidPayment, with the normalizedIdentifier line before it.
IsValidPayment(paymentData, identifier, roll, no) ==
    IF identifier.t # "string" THEN "throw"
    ELSE SomeRecord(paymentData, identifier, roll, no)

\* Step 1 of handleFullResultRequest from the settling of the payment-store
\* fetch: a response, or the fetch of step 2.
VerifyPayment(answer, body) ==
    LET identifier == Get(Fields(body), "identifier")
        roll == Get(Fields(body), "roll")
        no == Get(Fields(body), "no")
        registration == Get(Fields(body), "registration")
        failed == Respond(MessageResponse(500, Lit("Error during payment verification.")))
    IN  IF answer.net = "fail" THEN failed
        ELSE IF ~Ok(answer.status)
        THEN Respond(MessageResponse(503,
               Lit("Could not verify details at this time (DB Error).")))
        ELSE IF answer.body.t = "notjson" THEN failed
        ELSE IF answer.body.t # "array"
        THEN Respond(MessageResponse(500, Lit("Payment data format error.")))
        ELSE IF IsValidPayment(answer.body.v, identifier, roll, no) = "throw"
        THEN failed
        ELSE IF IsValidPayment(answer.body.v, identifier, roll, no) = "false"
        THEN Respond(MessageResponse(403,
               Lit("Verification failed. Payment not found or details mismatch.")))
        ELSE Fetch(BoardCall(roll, no, registration), Undefined)

\* RemapStatus without the rewrite of 404.
RemapStatusRaw(status) == status

\* The status of the full-result flow's error response: an upstream 404 is
\* rewritten, any other status is passed on.
RemapStatus(status) == IF status = 404 THEN 500 ELSE status

\* Step 2 of handleFullResultRequest from the settling of fetch(apiUrl).
FullAfterFetch(answer) ==
    IF answer.net = "fail"
    THEN MessageResponse(502,
           Lit("Failed to connect to the results service for full details."))
    ELSE IF ~Ok(answer.status)
    THEN MessageResponse(
           RemapStatus(answer.status),
           IF answer.status = 404
           THEN Lit("Result found (payment verified), but could not retrieve full details with the provided Roll, No, and Registration Number. Please check these details or contact support.")
           ELSE ErrorTextOf(answer))
    ELSE IF answer.body.t = "notjson"
    THEN MessageResponse(502,
           Lit("Failed to connect to the results service for full details."))
    ELSE Response(200, JsonHeaders,
           IF answer.body.t = "object" THEN Obj(Stringify(answer.body.v))
           ELSE answer.body)

(******************************* environment *******************************)

Reqs == {"r1", "r2"}

NoRequest == [method |-> "none", path |-> "none", body |-> NotJson]

Roll6 == <<"1", "2", "3", "4", "5", "6">>

No4 == <<"1", "2", "3", "4">>

Rolls == {Undefined, Str(Roll6), Str(<<"1", "2", "3", "4", "5">>), Num(Roll6)}

Nos == {Undefined, Str(No4), Str(<<"1", "2", "a", "4">>)}

Registrations == {Str(<<" ", "R", "1">>), Str(<<" ", " ">>), Num(<<"5">>)}

ReferralKeys ==
    { Undefined,
      Str(<<"K", "o", "Y", "e", "l">>),
      Str(<<"z", "z">>),
      Str(<<"C", "o", "n", "s", "t", "r", "u", "c", "t", "o", "r">>),
      Num(<<"7">>) }

Identifiers ==
    { Undefined,
      Str(<<"P", "A", "Y", "1">>),
      Str(<<"A", "@", "x">>),
      Str(<<"9", "x">>),
      Str(<<"9", "X">>),
      Num(<<"9">>) }

\* A JSON object with the given properties; an undefined one is absent.
Body(pairs) == Obj({p \in pairs : p[2].t # "undefined"})

DetailsBodies ==
    {NotJson, Null, Num(<<"5">>)} \cup
    { Body({<<"roll", a>>, <<"no", b>>, <<"registration", c>>, <<"referralKey", k>>}) :
        a \in Rolls, b \in Nos, c \in Registrations, k \in ReferralKeys }

FullBodies ==
    {NotJson, Null, Num(<<"5">>)} \cup
    { Body({<<"roll", a>>, <<"no", b>>, <<"registration", c>>, <<"identifier", i>>}) :
        a \in Rolls, b \in Nos, c \in Registrations, i \in Identifiers }

Request(method, path, body) == [method |-> method, path |-> path, body |-> body]

Requests ==
    { Request(m, p, NotJson) :
        m \in {"OPTIONS", "GET"},
        p \in {"/api/details", "/api/full-result", "/api/other"} }
    \cup {Request("POST", "/api/other", NotJson)}
    \cup {Request("POST", "/api/details", b) : b \in DetailsBodies}
    \cup {Request("POST", "/api/full-result", b) : b \in FullBodies}

\* The requests of the two-request specification.
ConcRequests ==
    { Request("POST", "/api/details",
        Body({<<"roll", Str(Roll6)>>, <<"no", Str(No4)>>,
              <<"registration", Str(<<" ", "R", "1">>)>>})) }
    \cup
    { Request("POST", "/api/full-result",
        Body({<<"roll", Str(Roll6)>>, <<"no", Str(No4)>>,
              <<"registration", Str(<<" ", "R", "1">>)>>, <<"identifier", i>>})) :
        i \in {Str(<<"P", "A", "Y", "1">>), Str(<<"9", "X">>)} }

\* The requests of the fair specification: one of every way through onRequest
\* and the two flows.
FairRequests ==
    { Request("OPTIONS", "/api/details", NotJson),
      Request("GET", "/api/full-result", NotJson),
      Request("POST", "/api/other", NotJson) }
    \cup
    { Request("POST", p, b) :
        p \in {"/api/details", "/api/full-result"},
        b \in { NotJson, Null,
                Body({<<"roll", Str(Roll6)>>, <<"no", Str(<<"1", "2", "a", "4">>)>>,
                      <<"registration", Str(<<" ", "R", "1">>)>>,
                      <<"identifier", Str(<<"9", "x">>)>>}) } }
    \cup
    { Request("POST", "/api/details",
        Body({<<"roll", Str(Roll6)>>, <<"no", Str(No4)>>,
              <<"registration", Str(<<" ", "R", "1">>)>>, <<"referralKey", k>>})) :
        k \in {Undefined, Str(<<"K", "o", "Y", "e", "l">>), Num(<<"7">>)} }
    \cup
    { Request("POST", "/api/full-result",
        Body({<<"roll", Str(Roll6)>>, <<"no", Str(No4)>>,
              <<"registration", Str(<<" ", "R", "1">>)>>, <<"identifier", i>>})) :
        i \in {Str(<<"P", "A", "Y", "1">>), Str(<<"9", "X">>), Num(<<"9">>)} }

\* What the payment store may hold: records, and a null element.
StoreElems ==
    { Null,
      Obj({<<"roll", Str(Roll6)>>, <<"no", Str(No4)>>,
           <<"payment_id", Str(<<"p", "A", "y", "1">>)>>}),
      Obj({<<"roll", Str(Roll6)>>, <<"no", Str(No4)>>,
           <<"email", Str(<<"a", "@", "X">>)>>, <<"phone", Str(<<"9", "x">>)>>}),
      Obj({<<"roll", Str(<<"6", "5", "4", "3", "2", "1">>)>>, <<"no", Str(No4)>>,
           <<"payment_id", Str(<<"p", "a", "y", "1">>)>>}),
      Obj({<<"roll", Str(Roll6)>>, <<"no", Str(No4)>>,
           <<"payment_id", Num(<<"7", "7">>)>>}) }

Answer(net, status, body) == [net |-> net, status |-> status, body |-> body]

NetworkFailure == Answer("fail", 0, NotJson)

\* No fetch of the board API has settled yet.
NoAnswer == Answer("none", 0, NotJson)

ListAnswer(list) == Answer("ok", 200, [t |-> "array", v |-> list])

\* The ways the payment store fails: unreachable, an error status, a body that
\* is not JSON, a JSON body that is not a list.
StoreFaults ==
    { NetworkFailure, Answer("ok", 500, NotJson), Answer("ok", 200, NotJson),
      Answer("ok", 200, Obj({})) }

BoardBodies ==
    { NotJson, Null,
      Obj({<<"message", Lit("No record found")>>}),
      Obj({<<"message", Num(<<"4", "2">>)>>}),
      Obj({<<"name", Lit("A STUDENT")>>, <<"ROll_No", Lit("1234561234")>>,
           <<"Reg_No", Lit("R1")>>}) }

\* What the board results API may answer to a GET: a rejected fetch, or a
\* status with a body.  The statuses are ones a Response can be built with
\* together with a body, as the flows do with the status they pass on.
BoardAnswers ==
    {NetworkFailure} \cup
    {Answer("ok", s, b) : s \in {200, 403, 404, 500}, b \in BoardBodies}

(********************************* actions *********************************)

\* A handler returns its response.
Finish(r, response) ==
    /\ resp' = [resp EXCEPT ![r] = Append(@, response)]
    /\ pc' = [pc EXCEPT ![r] = "done"]

\* Escaped without the catch block: the invocation dies with no response.
EscapedUncaught(r, message) ==
    /\ pc' = [pc EXCEPT ![r] = "crashed"]
    /\ UNCHANGED resp

\* A throw that leaves a flow reaches the catch block of onRequest.
Escaped(r, message) == Finish(r, TopLevelCatch(message))

\* The end of a synchronous stretch: return, throw, or await a fetch.
Settle(r, outcome, awaiting) ==
    /\ UNCHANGED apiResponse
    /\ IF outcome.kind = "respond"
       THEN /\ Finish(r, outcome.response)
            /\ UNCHANGED <<calls, paymentButtonIdToUse>>
       ELSE IF outcome.kind = "throw"
       THEN /\ Escaped(r, outcome.message)
            /\ UNCHANGED <<calls, paymentButtonIdToUse>>
       ELSE /\ calls' = [calls EXCEPT ![r] = Append(@, outcome.call)]
            /\ pc' = [pc EXCEPT ![r] = awaiting]
            /\ paymentButtonIdToUse' =
                 [paymentButtonIdToUse EXCEPT ![r] = outcome.button]
            /\ UNCHANGED resp

\* onRequest up to the await of the flow it dispatches to.
Route(r) ==
    /\ pc[r] = "start"
    /\ IF inbox[r].method = "OPTIONS"
       THEN Finish(r, Response(200, corsHeaders, NoBody))
       ELSE IF inbox[r].method # "POST"
       THEN Finish(r, MessageResponse(405, Lit("Method Not Allowed")))
       ELSE IF inbox[r].path = "/api/details"
       THEN pc' = [pc EXCEPT ![r] = "detailsJson"] /\ UNCHANGED resp
       ELSE IF inbox[r].path = "/api/full-result"
       THEN pc' = [pc EXCEPT ![r] = "fullJson"] /\ UNCHANGED resp
       ELSE Finish(r, MessageResponse(404, Lit("Not Found")))
    /\ UNCHANGED <<inbox, paymentButtonIdToUse, apiResponse, calls, paymentDb>>

\* requestData kept in one variable shared by all invocations.
requestDataShared(r) == inbox["r1"].body

\* The parsed body of request r: `requestData = await request.json()`.
requestData(r) == inbox[r].body

\* handleDetailsRequest: request.json() settles.
DetailsBody(r) ==
    /\ pc[r] = "detailsJson"
    /\ Settle(r, DetailsAfterJson(requestData(r)), "detailsFetch")
    /\ UNCHANGED <<inbox, paymentDb>>

\* handleDetailsRequest: the board fetch settles with some answer; reading the
\* answer's body touches nothing shared, so the handler runs on to its return.
DetailsFetchDone(r) ==
    /\ pc[r] = "detailsFetch"
    /\ \E answer \in BoardAnswers :
          /\ apiResponse' = [apiResponse EXCEPT ![r] = answer]
          /\ Finish(r, DetailsAfterFetch(answer, paymentButtonIdToUse[r]))
    /\ UNCHANGED <<inbox, paymentButtonIdToUse, calls, paymentDb>>

\* handleFullResultRequest: request.json() settles.
FullBody(r) ==
    /\ pc[r] = "fullJson"
    /\ Settle(r, FullAfterJson(requestData(r)), "paymentFetch")
    /\ UNCHANGED <<inbox, paymentDb>>

\* handleFullResultRequest: the payment-store fetch settles with what the store
\* answers now, and step 1 runs to its return or to the fetch of step 2.
PaymentFetchDone(r) ==
    /\ pc[r] = "paymentFetch"
    /\ Settle(r, VerifyPayment(paymentDb, requestData(r)), "fullFetch")
    /\ UNCHANGED <<inbox, paymentDb>>

\* handleFullResultRequest: the board fetch settles with some answer.
FullFetchDone(r) ==
    /\ pc[r] = "fullFetch"
    /\ \E answer \in BoardAnswers :
          /\ apiResponse' = [apiResponse EXCEPT ![r] = answer]
          /\ Finish(r, FullAfterFetch(answer))
    /\ UNCHANGED <<inbox, paymentButtonIdToUse, calls, paymentDb>>

IsList(answer) == answer.net = "ok" /\ answer.body.t = "array"

\* The payment store gains a record.
AddPayment ==
    /\ IsList(paymentDb)
    /\ Len(paymentDb.body.v) < MaxStoreLen
    /\ \E rec \in StoreElems :
          paymentDb' = ListAnswer(Append(paymentDb.body.v, rec))
    /\ UNCHANGED <<inbox, pc, paymentButtonIdToUse, apiResponse, calls, resp>>

\* The payment store loses its oldest record.
RemovePayment ==
    /\ IsList(paymentDb)
    /\ paymentDb.body.v # <<>>
    /\ paymentDb' = ListAnswer(Tail(paymentDb.body.v))
    /\ UNCHANGED <<inbox, pc, paymentButtonIdToUse, apiResponse, calls, resp>>

\* The payment store starts to fail.
StoreFault ==
    /\ IsList(paymentDb)
    /\ paymentDb' \in StoreFaults
    /\ UNCHANGED <<inbox, pc, paymentButtonIdToUse, apiResponse, calls, resp>>

\* The payment store comes back.
StoreRestore ==
    /\ ~IsList(paymentDb)
    /\ paymentDb' = ListAnswer(<<>>)
    /\ UNCHANGED <<inbox, pc, paymentButtonIdToUse, apiResponse, calls, resp>>

\* One step of the handling of request r.
Handle(r) ==
    \/ Route(r)
    \/ DetailsBody(r)
    \/ DetailsFetchDone(r)
    \/ FullBody(r)
    \/ PaymentFetchDone(r)
    \/ FullFetchDone(r)

Store == AddPayment \/ RemovePayment \/ StoreFault \/ StoreRestore

InitHandling ==
    /\ pc = [r \in Reqs |-> IF inbox[r] = NoRequest THEN "idle" ELSE "start"]
    /\ paymentButtonIdToUse = [r \in Reqs |-> Undefined]
    /\ apiResponse = [r \in Reqs |-> NoAnswer]
    /\ calls = [r \in Reqs |-> <<>>]
    /\ resp = [r \in Reqs |-> <<>>]
    /\ paymentDb = ListAnswer(<<>>)

\* One inbound request, any of Requests.
Init ==
    /\ inbox \in {[r \in Reqs |-> IF r = "r1" THEN q ELSE NoRequest] : q \in Requests}
    /\ InitHandling

\* Two inbound requests handled concurrently.
InitConc ==
    /\ inbox \in [Reqs -> ConcRequests]
    /\ InitHandling

Next == (\E r \in Reqs : Handle(r)) \/ Store

Spec == Init /\ [][Next]_vars

ConcSpec == InitConc /\ [][Next]_vars

\* One inbound request, any of FairRequests.
InitFair ==
    /\ inbox \in {[r \in Reqs |-> IF r = "r1" THEN q ELSE NoRequest] : q \in FairRequests}
    /\ InitHandling

\* Every downstream call settles and every handler runs on.
FairSpec == InitFair /\ [][Next]_vars /\ \A r \in Reqs : WF_vars(Handle(r))

(************************ vocabulary of the claims **************************)

IsPost(r, path) == inbox[r].method = "POST" /\ inbox[r].path = path

Answered(r) == resp[r] # <<>>

Last(r) == resp[r][Len(resp[r])]

BoardCalled(c) == \E i \in 1..Len(c) : c[i].target = "board"

PaymentsCalled(c) == \E i \in 1..Len(c) : c[i].target = "payments"

\* The message of a response, when its body is a JSON object.
MessageOf(response) ==
    IF response.body.t = "object" THEN Get(response.body.v, "message")
    ELSE Undefined

\* x equals the identifier, letter case ignored.
EqualsIgnoringCase(x, identifier) ==
    /\ x.t = "string"
    /\ identifier.t = "string"
    /\ ToLowerCase(x.v) = ToLowerCase(identifier.v)

\* A payment record matching the request's roll, serial and identifier.
MatchingRecord(record, body) ==
    /\ record.t = "object"
    /\ Get(record.v, "roll") = Get(Fields(body), "roll")
    /\ Get(record.v, "no") = Get(Fields(body), "no")
    /\ \/ EqualsIgnoringCase(Get(record.v, "payment_id"), Get(Fields(body), "identifier"))
       \/ EqualsIgnoringCase(Get(record.v, "email"), Get(Fields(body), "identifier"))
       \/ /\ Get(record.v, "phone").t # "undefined"
          /\ Get(record.v, "phone") = Get(Fields(body), "identifier")

HasMatchingRecord(list, body) ==
    \E i \in 1..Len(list) : MatchingRecord(list[i], body)

\* The field patterns of the validator: six digits, four digits, and a
\* registration that is a string with something left after trimming.
RollMatches(body) == TestDigits(6, Get(Fields(body), "roll"))

SerialMatches(body) == TestDigits(4, Get(Fields(body), "no"))

ValidQuery(body) ==
    /\ RollMatches(body)
    /\ SerialMatches(body)
    /\ Get(Fields(body), "registration").t = "string"
    /\ Trim(Get(Fields(body), "registration").v) # <<>>

VerificationMessages ==
    { Lit("Error during payment verification."),
      Lit("Payment data format error."),
      Lit("Could not verify details at this time (DB Error)."),
      Lit("Verification failed. Payment not found or details mismatch.") }

\* Request r's verification step ends in this step: verified, or refused.
Verified(r) == pc[r] = "paymentFetch" /\ pc'[r] = "fullFetch"

Refused(r) ==
    /\ pc[r] = "paymentFetch"
    /\ pc'[r] = "done"
    /\ Last(r)'.status = 403

(********************************* claims **********************************)

\* In this step request r issues its GET to the board results API from the
\* full-result flow.
C1_IssuesBoardCall(r) ==
    /\ IsPost(r, "/api/full-result")
    /\ ~BoardCalled(calls[r])
    /\ BoardCalled(calls'[r])

C1_VerifiedFirst ==
    \A r \in Reqs :
        C1_IssuesBoardCall(r) =>
            /\ calls[r] = <<PaymentCall>>
            /\ IsList(paymentDb)
            /\ Ok(paymentDb.status)
            /\ HasMatchingRecord(paymentDb.body.v, inbox[r].body)

\* A response the flow produces itself, from body parsing, validation or the
\* verification step, is returned with the board never called; a 200 is
\* returned only from step 2, after the board call.
C1_OwnResponses ==
    \A r \in Reqs :
        (IsPost(r, "/api/full-result") /\ resp'[r] # resp[r]) =>
            /\ pc[r] \in {"fullJson", "paymentFetch"} =>
                  /\ ~BoardCalled(calls'[r])
                  /\ Last(r)'.status \in {400, 403, 500, 503}
            /\ Last(r)'.status = 200 =>
                  pc[r] = "fullFetch" /\ BoardCalled(calls[r])

\* C1 (as amended): in the full-result flow the GET to the results API is
\* issued only in the step in which the payment store, asked by this same
\* request, answers with a success status and a list holding a record that
\* matches roll, serial and identifier; every 400, 403, 503 and 500 the flow
\* produces itself before step 2 is returned with the results API never
\* contacted, and a 200 is returned only after the board call.
C1_VerifyThenFetch == [][C1_VerifiedFirst /\ C1_OwnResponses]_vars

\* C1 witness: a full-result request answered 200 after both calls.
C1_Witness ==
    \E r \in Reqs :
        /\ IsPost(r, "/api/full-result")
        /\ Answered(r)
        /\ Last(r).status = 200
        /\ Len(calls[r]) = 2

\* No full-result request that ends in 400, 403, 503 or a verification-step
\* 500 has contacted the results API.
C1_RefusedNeverFetched ==
    \A r \in Reqs :
        (IsPost(r, "/api/full-result") /\ Answered(r)
         /\ (Last(r).status \in {400, 403, 503}
             \/ MessageOf(Last(r)) \in VerificationMessages))
        => ~BoardCalled(calls[r])

\* C1 as stated: the board call follows a successful verification, and
\* consequently no request that ends in 400, 403, 503 or a verification-step
\* 500 has contacted the results API.
C1_Original == [][C1_VerifiedFirst]_vars /\ []C1_RefusedNeverFetched

\* C2 as stated: a POST to either flow whose roll is not six digits or whose
\* serial is not four digits is answered 400, whatever the body is.
C2_BadRollOrSerialIs400 ==
    \A r \in Reqs :
        ( /\ IsPost(r, "/api/details") \/ IsPost(r, "/api/full-result")
          /\ inbox[r].body.t # "notjson"
          /\ ~RollMatches(inbox[r].body) \/ ~SerialMatches(inbox[r].body)
          /\ pc[r] = "done" )
        => Last(r).status = 400

\* The verification step of request r ends in this step on a list: verified
\* when the list holds a matching record, refused with 403 when it holds none.
C3_Step ==
    \A r \in Reqs :
        (pc[r] = "paymentFetch" /\ pc'[r] # "paymentFetch"
         /\ IsList(paymentDb) /\ Ok(paymentDb.status)) =>
            IF HasMatchingRecord(paymentDb.body.v, inbox[r].body)
            THEN Verified(r)
            ELSE Refused(r)

\* C3 as stated: when the payment store answers with a list, the flow goes on
\* to the result fetch if the list holds a matching record and answers 403 if
\* it holds none, whatever else the list holds and whatever identifier passed
\* validation.
C3_MatchDecides == [][C3_Step]_vars

\* The button id the referral table gives a key: the mapped value of subhra,
\* koyel and anwesha in any letter case, the default for anything else.
C4_Expected(key) ==
    IF key.t # "string" THEN defaultRazorpayButtonId
    ELSE CASE ToLowerCase(key.v) = <<"s", "u", "b", "h", "r", "a">> ->
                  Lit("pl_QRCx74QvShiAil")
           [] ToLowerCase(key.v) = <<"k", "o", "y", "e", "l">> ->
                  Lit("pl_QMWdxwIPVZYTpi")
           [] ToLowerCase(key.v) = <<"a", "n", "w", "e", "s", "h", "a">> ->
                  Lit("pl_QRfw57xno82GiV")
           [] OTHER -> Lit("pl_QMXOuva67vyoan")

\* C4 as stated: a details request that passes validation always gets past
\* referral resolution to its fetch, with the mapped id for a key of the
\* table and the default for any other key.
C4_ReferralTotal ==
    \A r \in Reqs :
        ( /\ IsPost(r, "/api/details")
          /\ inbox[r].body.t = "object"
          /\ ValidQuery(inbox[r].body)
          /\ pc[r] \in {"detailsFetch", "done"} )
        => /\ Len(calls[r]) = 1
           /\ paymentButtonIdToUse[r] =
                C4_Expected(Get(Fields(inbox[r].body), "referralKey"))

C6_Original ==
    \A r \in Reqs : \A i \in 1..Len(resp[r]) :
        /\ corsHeaders \subseteq resp[r][i].headers
        /\ <<"Content-Type", "application/json">> \in resp[r][i].headers

\* C6 (as amended): every response carries the three cross-origin headers;
\* every response to a method other than OPTIONS also carries Content-Type
\* application/json, and the response to OPTIONS has no body and no
\* Content-Type.
C6_Headers ==
    \A r \in Reqs : \A i \in 1..Len(resp[r]) :
        /\ { <<"Access-Control-Allow-Origin", "*">>,
             <<"Access-Control-Allow-Methods", "POST, OPTIONS">>,
             <<"Access-Control-Allow-Headers", "Content-Type">> }
              \subseteq resp[r][i].headers
        /\ IF inbox[r].method = "OPTIONS"
           THEN /\ resp[r][i].body.t = "nobody"
                /\ \A h \in resp[r][i].headers : h[1] # "Content-Type"
           ELSE /\ <<"Content-Type", "application/json">> \in resp[r][i].headers
                /\ Cardinality(resp[r][i].headers) = 4

\* C6 witness: an OPTIONS request and its response.
C6_Witness ==
    \E r \in Reqs : inbox[r].method = "OPTIONS" /\ Answered(r)

\* C7 as stated: every response with a non-success status has a JSON object
\* body whose message is a string.
C7_ErrorEnvelope ==
    \A r \in Reqs : \A i \in 1..Len(resp[r]) :
        ~Ok(resp[r][i].status) =>
            /\ resp[r][i].body.t = "object"
            /\ MessageOf(resp[r][i]).t = "string"

\* C8: a details request never contacts the payment store, issues at most one
\* downstream call, a GET to the board results API, and issues it only when
\* the body passed validation.
C8_DetailsCalls ==
    \A r \in Reqs :
        IsPost(r, "/api/details") =>
            /\ ~PaymentsCalled(calls[r])
            /\ Len(calls[r]) <= 1
            /\ calls[r] # <<>> =>
                  /\ calls[r][1].target = "board"
                  /\ ValidQuery(inbox[r].body)

\* C8 witness: a details request that made its board call and was answered.
C8_Witness ==
    \E r \in Reqs :
        /\ IsPost(r, "/api/details")
        /\ Len(calls[r]) = 1
        /\ pc[r] = "done"

\* A verification step that ends verified saw a matching record in the store's
\* answer to this request; one that ends refused saw none.
C9_Step ==
    \A r \in Reqs :
        /\ Verified(r) =>
              IsList(paymentDb) /\ HasMatchingRecord(paymentDb.body.v, inbox[r].body)
        /\ Refused(r) =>
              IsList(paymentDb) /\ ~HasMatchingRecord(paymentDb.body.v, inbox[r].body)

\* C9: with two requests handled concurrently, each full-result request is
\* verified only if the list the payment store returns to its own fetch holds
\* a record matching its own roll, serial and identifier, and refused with 403
\* only if that list holds none, whatever the other request carries or was
\* answered.
C9_OwnRequestOwnList == [][C9_Step]_vars

\* C9 witness: two full-result requests with the same body, one refused and
\* the other served, the store having changed between their fetches.
C9_Witness ==
    /\ inbox["r1"] = inbox["r2"]
    /\ IsPost("r1", "/api/full-result")
    /\ pc["r1"] = "done" /\ pc["r2"] = "done"
    /\ Last("r1").status = 403 /\ calls["r1"] = <<PaymentCall>>
    /\ Last("r2").status = 200 /\ Len(calls["r2"]) = 2

\* At most two downstream calls, the payment store before the board, one
\* response once done and none before.
C10_State ==
    \A r \in Reqs :
        /\ pc[r] \notin {"idle", "done"} => ENABLED Handle(r)
        /\ Len(calls[r]) <= 2
        /\ Len(calls[r]) = 2 =>
              calls[r][1].target = "payments" /\ calls[r][2].target = "board"
        /\ Len(resp[r]) = IF pc[r] = "done" THEN 1 ELSE 0
        /\ pc[r] \in {"idle", "start", "detailsJson", "detailsFetch", "fullJson",
                      "paymentFetch", "fullFetch", "done"}

\* A response is final, and a call is issued only when the previous one has
\* settled.
C10_Step ==
    \A r \in Reqs :
        /\ pc[r] = "done" => pc'[r] = "done" /\ resp'[r] = resp[r]
        /\ calls'[r] # calls[r] =>
               /\ pc[r] \in {"detailsJson", "fullJson", "paymentFetch"}
               /\ Len(calls'[r]) = Len(calls[r]) + 1
               /\ pc[r] = "paymentFetch" <=> calls[r] # <<>>

\* C10: when its downstream calls settle, every inbound request is eventually
\* answered, exactly once and for good; it issues at most two calls, the
\* payment store then the board, each only after the one before settled, and
\* no step of a flow leaves it unable to go on.
C10_AlwaysAnswered ==
    /\ []C10_State
    /\ [][C10_Step]_vars
    /\ <>(\A r \in Reqs : inbox[r] # NoRequest => pc[r] = "done")

\* C10 witness: a request whose body is null, answered by the catch block.
C10_Witness ==
    \E r \in Reqs :
        /\ inbox[r].method = "POST"
        /\ inbox[r].body.t = "null"
        /\ pc[r] = "done"
        /\ Last(r).status = 500

====
